---------------------------- MODULE Spec2Model ----------------------------
(***************************************************************************)
(* A model of the vision-based biscuit sorter of src/main.py: the          *)
(* classifier BiscuitDefectDetector.detect_defects, the locator            *)
(* VisionBasedSorter.get_object_position, the arm wrapper RobotController, *)
(* the sorting loop VisionBasedSorter.sort with its finally block, and     *)
(* main() with its exception handlers.                                     *)
(*                                                                         *)
(* The camera, the keyboard, the interrupt signal and the two serial       *)
(* handles are the environment: a camera read may fail, any command        *)
(* written to a serial handle may raise, a KeyboardInterrupt may be        *)
(* delivered at any statement of the try body of sort(), and 'q' may be    *)
(* pressed at any time while the loop runs.                                *)
(***************************************************************************)
EXTENDS Integers, Sequences, FiniteSets, TLC

VARIABLES
    pc,           \* position of the single thread of control
    exc,          \* exception in flight / that ended sort(): "none", "KeyboardInterrupt", "Exception"
    stopCause,    \* what first made the try body of sort() stop
    sorterSerial, \* VisionBasedSorter.serial (main.py:131): "unopened", "open", "closed"
    robotSerial,  \* RobotController.serial (main.py:95)
    camera,       \* VisionBasedSorter.cap: "unopened", "open", "released"
    conveyor,     \* speed of the belt: the last speed delivered to it, at rest before
    suction,      \* state of the pump: the last value delivered to it, off before
    frame,        \* the frame of the current iteration (local `ret, frame`)
    position,     \* local `pick_x, pick_y, pick_z, is_in_pick_zone`
    result,       \* local `result`
    drop_zone,    \* local `drop_zone`
    keyPending,   \* 'q' has been pressed and not yet consumed by cv2.waitKey
    iterations,   \* loop iterations started so far
    log,          \* calls made in the current phase (start-up, or the current iteration)
    cleanupLog,   \* calls made by the finally block
    reported,     \* what main() printed about the run: "none", "interrupted", "error", "traceback"
    exitStatus    \* status the process exits with once pc = "exit"

vars == <<pc, exc, stopCause, sorterSerial, robotSerial, camera, conveyor, suction,
          frame, position, result, drop_zone, keyPending, iterations, log,
          cleanupLog, reported, exitStatus>>

---------------------------------------------------------------------------
(* Bounds of the model *)

MaxIter == 3

(* Program constants *)

ConveyorSpeed == 30
PickZoneMargin == 50
RobotX == 200
RobotZ == 50
WorkspaceWidth == 400
HistBins == 256

---------------------------------------------------------------------------
(* Values *)

Frac(n, d) == [num |-> n, den |-> d]
Pos(x, y, z) == [x |-> x, y |-> y, z |-> z]
Ev(op, arg, ok) == [op |-> op, arg |-> arg, ok |-> ok]

NoFrame == [ret |-> FALSE]
NoResult == [status |-> "unset"]
NoPosition == [x |-> 0, y |-> Frac(0, 1), z |-> 0, in_zone |-> FALSE, set |-> FALSE]
NoDropZone == [set |-> FALSE]

---------------------------------------------------------------------------
(* BiscuitDefectDetector *)

(* self.thresholds: the entries detect_defects reads. *)
thresholds ==
    [good         |-> [intensity_range |-> <<100, 180>>, peak_intensity |-> 150],
     broken       |-> [intensity_range |-> <<10, 180>>,  peak_intensity |-> 160],
     semi_burned  |-> [intensity_range |-> <<0, 210>>,   peak_intensity |-> 100],
     fully_burned |-> [intensity_range |-> <<0, 150>>,   peak_intensity |-> 45]]

(* The chain with the semi_burned test moved before the good test. *)
Classification_SemiBurnedFirst(peak_intensity) ==
    IF peak_intensity <= thresholds.fully_burned.peak_intensity
    THEN [status |-> "fully_burned", confidence |-> 85]
    ELSE IF peak_intensity <= thresholds.semi_burned.peak_intensity
    THEN [status |-> "semi_burned", confidence |-> 80]
    ELSE IF /\ thresholds.good.intensity_range[1] <= peak_intensity
            /\ peak_intensity <= thresholds.good.intensity_range[2]
    THEN [status |-> "good", confidence |-> 90]
    ELSE [status |-> "broken", confidence |-> 75]

(* The if/elif chain of detect_defects over the histogram peak; a           *)
(* confidence is in hundredths (0.9 is 90).                                 *)
Classification(peak_intensity) ==
    IF /\ thresholds.good.intensity_range[1] <= peak_intensity
       /\ peak_intensity <= thresholds.good.intensity_range[2]
    THEN [status |-> "good", confidence |-> 90]
    ELSE IF peak_intensity <= thresholds.fully_burned.peak_intensity
    THEN [status |-> "fully_burned", confidence |-> 85]
    ELSE IF peak_intensity <= thresholds.semi_burned.peak_intensity
    THEN [status |-> "semi_burned", confidence |-> 80]
    ELSE [status |-> "broken", confidence |-> 75]

(* detect_defects(image): f.blurContours is the number of external contours *)
(* of the blurred, thresholded image, f.peak the argmax of its histogram,   *)
(* f.range its (min, max) and f.area the area of its largest contour.       *)
detect_defects(f) ==
    IF f.blurContours = 0
    THEN [status |-> "no_biscuit_detected"]
    ELSE [status     |-> Classification(f.peak).status,
          confidence |-> Classification(f.peak).confidence,
          metrics    |-> [peak_intensity  |-> f.peak,
                          intensity_range |-> f.range,
                          area            |-> f.area]]

---------------------------------------------------------------------------
(* VisionBasedSorter: the drop zones and the locator *)

(* The table with the entry of one status forgotten *)
drop_zones_NoBroken ==
    [good         |-> Pos(200, Frac(0, 1), 50),
     semi_burned  |-> Pos(200, Frac(-100, 1), 50),
     fully_burned |-> Pos(200, Frac(-200, 1), 50)]

drop_zones ==
    [good         |-> Pos(200, Frac(0, 1), 50),
     broken       |-> Pos(200, Frac(100, 1), 50),
     semi_burned  |-> Pos(200, Frac(-100, 1), 50),
     fully_burned |-> Pos(200, Frac(-200, 1), 50)]

Abs(n) == IF n < 0 THEN -n ELSE n

(* The locator with the margin itself counted as inside the pick zone *)
get_object_position_InclusiveMargin(f) ==
    IF f.contours = 0 \/ f.m00 = 0
    THEN [x |-> 0, y |-> Frac(0, 1), z |-> 0, in_zone |-> FALSE, set |-> TRUE]
    ELSE LET cx == f.m10 \div f.m00
         IN  [x |-> RobotX,
              y |-> Frac((2 * cx - f.width) * WorkspaceWidth, 2 * f.width),
              z |-> RobotZ,
              in_zone |-> Abs(2 * cx - f.width) <= 2 * PickZoneMargin,
              set |-> TRUE]

(* get_object_position(frame): f.contours is the number of external         *)
(* contours of the thresholded (unblurred) frame, f.m00 and f.m10 the       *)
(* moments of the largest one.  center_x = width / 2 is a true division, so *)
(* the comparison and the mapping are written over halves: cx - center_x is *)
(* (2*cx - width) / 2.                                                      *)
get_object_position(f) ==
    IF f.contours = 0 \/ f.m00 = 0
    THEN [x |-> 0, y |-> Frac(0, 1), z |-> 0, in_zone |-> FALSE, set |-> TRUE]
    ELSE LET cx == f.m10 \div f.m00
         IN  [x |-> RobotX,
              y |-> Frac((2 * cx - f.width) * WorkspaceWidth, 2 * f.width),
              z |-> RobotZ,
              in_zone |-> Abs(2 * cx - f.width) < 2 * PickZoneMargin,
              set |-> TRUE]

---------------------------------------------------------------------------
(* The environment: what a camera read can deliver *)

FrameWidths == {640}
M00Samples == {0, 2}
M10Samples == {541, 542, 640, 740}
PeakSamples == {45, 46, 100, 181}
AreaSamples == {900}
RangeSamples == {<<0, 255>>}

(* A delivered frame, by what the locator and the classifier read from it.  *)
(* A frame without contours has no moments; a contour of zero area (m00 =   *)
(* 0) has zero first moments as well.  The classifier thresholds the        *)
(* Gaussian blur of the same grayscale image at the same level 127: a frame *)
(* with no pixel above it has none after the blur either.                   *)
Frames ==
    {f \in [ret : {TRUE}, width : FrameWidths, contours : {0, 1},
            m00 : M00Samples, m10 : M10Samples \cup {0},
            blurContours : {0, 1}, peak : PeakSamples,
            range : RangeSamples, area : AreaSamples] :
        /\ (f.contours = 0 => f.m00 = 0 /\ f.blurContours = 0)
        /\ (f.m00 = 0 <=> f.m10 = 0)}

CaptureResults == {NoFrame} \cup Frames

---------------------------------------------------------------------------
(* Positions of the thread of control *)

(* The try body of sort(), main.py:195-240 *)
TryPcs == {"home", "start_conveyor", "capture", "locate", "stop_conveyor",
           "classify", "restart_no_biscuit", "lookup",
           "pick_move", "pick_settle1", "pick_pump", "pick_settle2",
           "place_move", "place_settle1", "place_pump", "place_settle2",
           "restart_conveyor", "wait_key"}

(* The pick/place sequence, main.py:232-233 *)
PickPlacePcs == {"pick_move", "pick_settle1", "pick_pump", "pick_settle2",
                 "place_move", "place_settle1", "place_pump", "place_settle2"}

(* The finally block of sort(), main.py:242-248 *)
FinallyPcs == {"release_camera", "cleanup_pump", "cleanup_robot_close",
               "cleanup_conveyor", "cleanup_close"}

Init ==
    /\ pc = "open_serial"
    /\ exc = "none"
    /\ stopCause = "none"
    /\ sorterSerial = "unopened"
    /\ robotSerial = "unopened"
    /\ camera = "unopened"
    /\ conveyor = 0
    /\ suction = 0
    /\ frame = NoFrame
    /\ position = NoPosition
    /\ result = NoResult
    /\ drop_zone = NoDropZone
    /\ keyPending = FALSE
    /\ iterations = 0
    /\ log = <<>>
    /\ cleanupLog = <<>>
    /\ reported = "none"
    /\ exitStatus = 0

locals == <<frame, position, result, drop_zone>>
handles == <<sorterSerial, robotSerial, camera>>
outcome == <<reported, exitStatus>>

---------------------------------------------------------------------------
(* main(), line 252: sorter = VisionBasedSorter().  An exception of the     *)
(* constructor is outside main's try: the interpreter prints the traceback  *)
(* and exits with status 1.                                                 *)

Uncaught ==
    /\ pc' = "exit"
    /\ exc' = "Exception"
    /\ reported' = "traceback"
    /\ exitStatus' = 1

(* VisionBasedSorter.__init__, line 131: self.serial = serial.Serial(...) *)
OpenSorterSerial ==
    /\ pc = "open_serial"
    /\ \E ok \in BOOLEAN :
         IF ok
         THEN /\ sorterSerial' = "open"
              /\ pc' = "open_robot"
              /\ UNCHANGED <<exc, reported, exitStatus>>
         ELSE /\ Uncaught
              /\ UNCHANGED sorterSerial
    /\ UNCHANGED <<stopCause, robotSerial, camera, conveyor, suction, locals,
                   keyPending, iterations, log, cleanupLog>>

(* RobotController.__init__, lines 95-97, called at line 133: a second      *)
(* handle on the same port.                                                 *)
OpenRobotSerial ==
    /\ pc = "open_robot"
    /\ \E ok \in BOOLEAN :
         IF ok
         THEN /\ robotSerial' = "open"
              /\ pc' = "open_camera"
              /\ UNCHANGED <<exc, reported, exitStatus>>
         ELSE /\ Uncaught
              /\ UNCHANGED robotSerial
    /\ UNCHANGED <<stopCause, sorterSerial, camera, conveyor, suction, locals,
                   keyPending, iterations, log, cleanupLog>>

(* VisionBasedSorter.__init__, lines 138-140: the camera, then main line    *)
(* 254 enters sort().                                                       *)
OpenCamera ==
    /\ pc = "open_camera"
    /\ \E opened \in BOOLEAN :
         IF opened
         THEN /\ camera' = "open"
              /\ pc' = "home"
              /\ UNCHANGED <<exc, reported, exitStatus>>
         ELSE /\ Uncaught
              /\ UNCHANGED camera
    /\ UNCHANGED <<stopCause, sorterSerial, robotSerial, conveyor, suction,
                   locals, keyPending, iterations, log, cleanupLog>>

---------------------------------------------------------------------------
(* Calls on the serial handles.  A write is delivered when the handle is    *)
(* open and the transport accepts it; otherwise the driver call raises.     *)

Delivered(handle, ok) == ok /\ handle = "open"

(* An exception raised in the try body of sort() unwinds to its finally     *)
(* block, whose first statement is line 244.                                *)
Raise(kind, cause) ==
    /\ pc' = "release_camera"
    /\ exc' = kind
    /\ stopCause' = cause

(* A driver call of the try body: logged, then either the next statement    *)
(* or the exception.                                                        *)
TryCall(handle, ok, op, arg, next) ==
    /\ log' = Append(log, Ev(op, arg, Delivered(handle, ok)))
    /\ IF Delivered(handle, ok)
       THEN pc' = next /\ UNCHANGED <<exc, stopCause>>
       ELSE Raise("Exception", "actuator")

Speed(percent) == [percent |-> percent]
Pump(on) == [on |-> on]
None == [none |-> TRUE]

---------------------------------------------------------------------------
(* Homing whose failure is swallowed: the conveyor is started all the same *)
Home_IgnoresFailure ==
    /\ pc = "home"
    /\ \E ok \in BOOLEAN :
         /\ log' = Append(log, Ev("homing", None, Delivered(robotSerial, ok)))
         /\ pc' = "start_conveyor"
    /\ UNCHANGED <<exc, stopCause, handles, conveyor, suction, locals,
                   keyPending, iterations, cleanupLog, outcome>>

(* RobotController.home, lines 99-101, called at line 197 *)
Home ==
    /\ pc = "home"
    /\ \E ok \in BOOLEAN : TryCall(robotSerial, ok, "homing", None, "start_conveyor")
    /\ UNCHANGED <<handles, conveyor, suction, locals, keyPending, iterations,
                   cleanupLog, outcome>>

(* sort, lines 200-202: conveyor_speed = 30; self.conveyor.speed(conveyor_speed) *)
StartConveyor ==
    /\ pc = "start_conveyor"
    /\ \E ok \in BOOLEAN :
         /\ TryCall(sorterSerial, ok, "speed", Speed(ConveyorSpeed), "capture")
         /\ conveyor' = IF Delivered(sorterSerial, ok) THEN ConveyorSpeed ELSE conveyor
    /\ UNCHANGED <<handles, suction, locals, keyPending, iterations,
                   cleanupLog, outcome>>

(* The loop with a failed read treated as fatal: it raises instead of       *)
(* continuing.                                                              *)
Capture_FailureEndsLoop ==
    /\ pc = "capture"
    /\ iterations < MaxIter
    /\ iterations' = iterations + 1
    /\ \E f \in CaptureResults :
         /\ frame' = f
         /\ IF f.ret
            THEN pc' = "locate" /\ UNCHANGED <<exc, stopCause>>
            ELSE Raise("Exception", "capture")
    /\ log' = <<>>
    /\ UNCHANGED <<handles, conveyor, suction, position, result,
                   drop_zone, keyPending, cleanupLog, outcome>>

(* sort, lines 204-209: the top of the loop.  ret, frame = self.cap.read(); *)
(* a failed read continues with the next iteration.  The log restarts with  *)
(* each iteration.                                                          *)
Capture ==
    /\ pc = "capture"
    /\ iterations < MaxIter
    /\ iterations' = iterations + 1
    /\ \E f \in CaptureResults :
         /\ frame' = f
         /\ pc' = IF f.ret THEN "locate" ELSE "capture"
    /\ log' = <<>>
    /\ UNCHANGED <<exc, stopCause, handles, conveyor, suction, position, result,
                   drop_zone, keyPending, cleanupLog, outcome>>

(* The loop without the conveyor stop of line 217 *)
Locate_SkipsConveyorStop ==
    /\ pc = "locate"
    /\ position' = get_object_position(frame)
    /\ pc' = IF position'.in_zone THEN "classify" ELSE "wait_key"
    /\ UNCHANGED <<exc, stopCause, handles, conveyor, suction, frame, result,
                   drop_zone, keyPending, iterations, log, cleanupLog, outcome>>

(* sort, lines 212-215: locate the object, branch on is_in_pick_zone *)
Locate ==
    /\ pc = "locate"
    /\ position' = get_object_position(frame)
    /\ pc' = IF position'.in_zone THEN "stop_conveyor" ELSE "wait_key"
    /\ UNCHANGED <<exc, stopCause, handles, conveyor, suction, frame, result,
                   drop_zone, keyPending, iterations, log, cleanupLog, outcome>>

(* sort, line 217: self.conveyor.speed(0) *)
StopConveyor ==
    /\ pc = "stop_conveyor"
    /\ \E ok \in BOOLEAN :
         /\ TryCall(sorterSerial, ok, "speed", Speed(0), "classify")
         /\ conveyor' = IF Delivered(sorterSerial, ok) THEN 0 ELSE conveyor
    /\ UNCHANGED <<handles, suction, locals, keyPending, iterations,
                   cleanupLog, outcome>>

(* The loop without the no_biscuit_detected test of line 221 *)
Classify_IgnoresNoBiscuit ==
    /\ pc = "classify"
    /\ result' = detect_defects(frame)
    /\ pc' = "lookup"
    /\ UNCHANGED <<exc, stopCause, handles, conveyor, suction, frame, position,
                   drop_zone, keyPending, iterations, log, cleanupLog, outcome>>

(* sort, lines 220-221: classify the same frame, branch on the status *)
Classify ==
    /\ pc = "classify"
    /\ result' = detect_defects(frame)
    /\ pc' = IF result'.status = "no_biscuit_detected"
             THEN "restart_no_biscuit" ELSE "lookup"
    /\ UNCHANGED <<exc, stopCause, handles, conveyor, suction, frame, position,
                   drop_zone, keyPending, iterations, log, cleanupLog, outcome>>

(* The false-positive branch continuing without restarting the conveyor *)
RestartAfterNoBiscuit_NoResume ==
    /\ pc = "restart_no_biscuit"
    /\ pc' = "capture"
    /\ UNCHANGED <<exc, stopCause, handles, conveyor, suction, locals,
                   keyPending, iterations, log, cleanupLog, outcome>>

(* sort, lines 223-224: self.conveyor.speed(conveyor_speed); continue *)
RestartAfterNoBiscuit ==
    /\ pc = "restart_no_biscuit"
    /\ \E ok \in BOOLEAN :
         /\ TryCall(sorterSerial, ok, "speed", Speed(ConveyorSpeed), "capture")
         /\ conveyor' = IF Delivered(sorterSerial, ok) THEN ConveyorSpeed ELSE conveyor
    /\ UNCHANGED <<handles, suction, locals, keyPending, iterations,
                   cleanupLog, outcome>>

(* sort, line 227: drop_zone = self.drop_zones[result['status']]; a status  *)
(* that is no key raises KeyError.                                          *)
LookupDropZone ==
    /\ pc = "lookup"
    /\ IF result.status \in DOMAIN drop_zones
       THEN /\ drop_zone' = [set |-> TRUE, pos |-> drop_zones[result.status]]
            /\ pc' = "pick_move"
            /\ UNCHANGED <<exc, stopCause>>
       ELSE /\ Raise("Exception", "lookup")
            /\ UNCHANGED drop_zone
    /\ UNCHANGED <<handles, conveyor, suction, frame, position, result,
                   keyPending, iterations, log, cleanupLog, outcome>>

---------------------------------------------------------------------------
(* RobotController.pick and place, called at lines 232-233 *)

(* A command followed by no delay *)
Settle_NoDelay(at, next) ==
    /\ pc = at
    /\ pc' = next
    /\ UNCHANGED <<exc, stopCause, handles, conveyor, suction, locals,
                   keyPending, iterations, log, cleanupLog, outcome>>

(* time.sleep(0.5) after a command *)
Settle(at, next) ==
    /\ pc = at
    /\ pc' = next
    /\ log' = Append(log, Ev("sleep", None, TRUE))
    /\ UNCHANGED <<exc, stopCause, handles, conveyor, suction, locals,
                   keyPending, iterations, cleanupLog, outcome>>

(* pick, line 106: self.robot.sendMsg(f"G1 X{x} Y{y} Z{z}") with the pick position *)
PickMove ==
    /\ pc = "pick_move"
    /\ \E ok \in BOOLEAN :
         TryCall(robotSerial, ok, "move",
                 Pos(position.x, position.y, position.z), "pick_settle1")
    /\ UNCHANGED <<handles, conveyor, suction, locals, keyPending, iterations,
                   cleanupLog, outcome>>

(* pick, line 107 *)
PickSettle1 == Settle("pick_settle1", "pick_pump")

(* pick, line 109: self.robot.pump(1) *)
PickPump ==
    /\ pc = "pick_pump"
    /\ \E ok \in BOOLEAN :
         /\ TryCall(robotSerial, ok, "pump", Pump(1), "pick_settle2")
         /\ suction' = IF Delivered(robotSerial, ok) THEN 1 ELSE suction
    /\ UNCHANGED <<handles, conveyor, locals, keyPending, iterations,
                   cleanupLog, outcome>>

(* pick, line 110 *)
PickSettle2 == Settle("pick_settle2", "place_move")

(* place, line 115: sendMsg with the drop zone *)
PlaceMove ==
    /\ pc = "place_move"
    /\ \E ok \in BOOLEAN :
         TryCall(robotSerial, ok, "move", drop_zone.pos, "place_settle1")
    /\ UNCHANGED <<handles, conveyor, suction, locals, keyPending, iterations,
                   cleanupLog, outcome>>

(* place, line 116 *)
PlaceSettle1 == Settle("place_settle1", "place_pump")

(* place, line 118: self.robot.pump(0) *)
PlacePump ==
    /\ pc = "place_pump"
    /\ \E ok \in BOOLEAN :
         /\ TryCall(robotSerial, ok, "pump", Pump(0), "place_settle2")
         /\ suction' = IF Delivered(robotSerial, ok) THEN 0 ELSE suction
    /\ UNCHANGED <<handles, conveyor, locals, keyPending, iterations,
                   cleanupLog, outcome>>

(* place, line 119 *)
PlaceSettle2 == Settle("place_settle2", "restart_conveyor")

(* sort, line 236: self.conveyor.speed(conveyor_speed) after placing *)
RestartConveyor ==
    /\ pc = "restart_conveyor"
    /\ \E ok \in BOOLEAN :
         /\ TryCall(sorterSerial, ok, "speed", Speed(ConveyorSpeed), "wait_key")
         /\ conveyor' = IF Delivered(sorterSerial, ok) THEN ConveyorSpeed ELSE conveyor
    /\ UNCHANGED <<handles, suction, locals, keyPending, iterations,
                   cleanupLog, outcome>>

(* sort, lines 239-240: if cv2.waitKey(1) & 0xFF == ord('q'): break *)
WaitKey ==
    /\ pc = "wait_key"
    /\ keyPending' = FALSE
    /\ IF keyPending
       THEN /\ pc' = "release_camera"
            /\ stopCause' = "q"
       ELSE /\ pc' = "capture"
            /\ UNCHANGED stopCause
    /\ UNCHANGED <<exc, handles, conveyor, suction, locals, iterations, log,
                   cleanupLog, outcome>>

---------------------------------------------------------------------------
(* The user *)

(* 'q' is pressed while the loop runs *)
PressQ ==
    /\ pc \in TryPcs
    /\ ~keyPending
    /\ keyPending' = TRUE
    /\ UNCHANGED <<pc, exc, stopCause, handles, conveyor, suction, locals,
                   iterations, log, cleanupLog, outcome>>

(* SIGINT while the try body of sort() executes: Python raises              *)
(* KeyboardInterrupt at the statement being executed, which unwinds to the  *)
(* finally block.                                                           *)
Interrupt ==
    /\ pc \in TryPcs
    /\ Raise("KeyboardInterrupt", "interrupt")
    /\ UNCHANGED <<handles, conveyor, suction, locals, keyPending, iterations,
                   log, cleanupLog, outcome>>

---------------------------------------------------------------------------
(* The finally block of sort(), lines 242-248.  An exception raised here    *)
(* replaces the one in flight and leaves sort() with the rest of the block  *)
(* not run.                                                                 *)

FinallyCall(handle, ok, op, arg, next) ==
    /\ cleanupLog' = Append(cleanupLog, Ev(op, arg, Delivered(handle, ok)))
    /\ IF Delivered(handle, ok)
       THEN pc' = next /\ UNCHANGED exc
       ELSE pc' = "main_handler" /\ exc' = "Exception"

(* lines 244-245: self.cap.release(); cv2.destroyAllWindows() *)
ReleaseCamera ==
    /\ pc = "release_camera"
    /\ camera' = "released"
    /\ cleanupLog' = Append(cleanupLog, Ev("release_camera", None, TRUE))
    /\ pc' = "cleanup_pump"
    /\ UNCHANGED <<exc, stopCause, sorterSerial, robotSerial, conveyor, suction,
                   locals, keyPending, iterations, log, outcome>>

(* line 246, RobotController.cleanup line 123: self.robot.pump(0) *)
CleanupPump ==
    /\ pc = "cleanup_pump"
    /\ \E ok \in BOOLEAN :
         /\ FinallyCall(robotSerial, ok, "pump", Pump(0), "cleanup_robot_close")
         /\ suction' = IF Delivered(robotSerial, ok) THEN 0 ELSE suction
    /\ UNCHANGED <<stopCause, handles, conveyor, locals, keyPending, iterations,
                   log, outcome>>

(* RobotController.cleanup line 124: self.serial.close() on the arm's handle *)
CleanupRobotClose ==
    /\ pc = "cleanup_robot_close"
    /\ robotSerial' = "closed"
    /\ cleanupLog' = Append(cleanupLog, Ev("close_robot_serial", None, TRUE))
    /\ pc' = "cleanup_conveyor"
    /\ UNCHANGED <<exc, stopCause, sorterSerial, camera, conveyor, suction,
                   locals, keyPending, iterations, log, outcome>>

(* line 247: self.conveyor.speed(0) *)
CleanupConveyor ==
    /\ pc = "cleanup_conveyor"
    /\ \E ok \in BOOLEAN :
         /\ FinallyCall(sorterSerial, ok, "speed", Speed(0), "cleanup_close")
         /\ conveyor' = IF Delivered(sorterSerial, ok) THEN 0 ELSE conveyor
    /\ UNCHANGED <<stopCause, handles, suction, locals, keyPending, iterations,
                   log, outcome>>

(* line 248: self.serial.close(); sort() is left, normally or with the      *)
(* exception in flight.                                                     *)
CleanupClose ==
    /\ pc = "cleanup_close"
    /\ sorterSerial' = "closed"
    /\ cleanupLog' = Append(cleanupLog, Ev("close_serial", None, TRUE))
    /\ pc' = "main_handler"
    /\ UNCHANGED <<exc, stopCause, robotSerial, camera, conveyor, suction,
                   locals, keyPending, iterations, log, outcome>>

---------------------------------------------------------------------------
(* main(), lines 253-259: both handlers print and fall through to the last  *)
(* print; main returns and the process exits with status 0.                 *)
MainHandler ==
    /\ pc = "main_handler"
    /\ reported' = CASE exc = "KeyboardInterrupt" -> "interrupted"
                     [] exc = "Exception" -> "error"
                     [] OTHER -> "none"
    /\ exitStatus' = 0
    /\ pc' = "exit"
    /\ UNCHANGED <<exc, stopCause, handles, conveyor, suction, locals,
                   keyPending, iterations, log, cleanupLog>>

Next ==
    \/ OpenSorterSerial \/ OpenRobotSerial \/ OpenCamera
    \/ Home \/ StartConveyor \/ Capture \/ Locate \/ StopConveyor \/ Classify
    \/ RestartAfterNoBiscuit \/ LookupDropZone
    \/ PickMove \/ PickSettle1 \/ PickPump \/ PickSettle2
    \/ PlaceMove \/ PlaceSettle1 \/ PlacePump \/ PlaceSettle2
    \/ RestartConveyor \/ WaitKey
    \/ PressQ \/ Interrupt
    \/ ReleaseCamera \/ CleanupPump \/ CleanupRobotClose \/ CleanupConveyor
    \/ CleanupClose \/ MainHandler

Spec == Init /\ [][Next]_vars

---------------------------------------------------------------------------
(* The classifier on its own: detect_defects applied to every histogram     *)
(* peak, with several areas, intensity ranges and contour counts.           *)

ClassifierInputs ==
    [ret : {TRUE}, width : FrameWidths, contours : {1}, m00 : {2}, m10 : {640},
     blurContours : {1, 2}, peak : 0 .. (HistBins - 1),
     range : {<<0, 255>>, <<40, 200>>, <<120, 130>>}, area : {0, 900}]

InitClassify ==
    /\ pc = "classifier_input"
    /\ frame \in ClassifierInputs
    /\ exc = "none"
    /\ stopCause = "none"
    /\ sorterSerial = "unopened"
    /\ robotSerial = "unopened"
    /\ camera = "unopened"
    /\ conveyor = 0
    /\ suction = 0
    /\ position = NoPosition
    /\ result = NoResult
    /\ drop_zone = NoDropZone
    /\ keyPending = FALSE
    /\ iterations = 0
    /\ log = <<>>
    /\ cleanupLog = <<>>
    /\ reported = "none"
    /\ exitStatus = 0

(* result = self.detector.detect_defects(frame) *)
ClassifyFrame ==
    /\ pc = "classifier_input"
    /\ result' = detect_defects(frame)
    /\ pc' = "classifier_output"
    /\ UNCHANGED <<exc, stopCause, handles, conveyor, suction, frame, position,
                   drop_zone, keyPending, iterations, log, cleanupLog, outcome>>

NextClassify == ClassifyFrame

SpecClassify == InitClassify /\ [][NextClassify]_vars

---------------------------------------------------------------------------
(* The locator and the classifier on one frame, as lines 212 and 220 apply  *)
(* them: every centroid column of two frame widths, an even and an odd one, *)
(* frames without contours and degenerate contours included.                *)

MaxFirstMoment == 1300

VisionInputs ==
    {f \in [ret : {TRUE}, width : {640, 641}, contours : {0, 1},
            m00 : {0, 1, 2}, m10 : 0 .. MaxFirstMoment,
            blurContours : {0, 1}, peak : {45, 150},
            range : RangeSamples, area : AreaSamples] :
        /\ (f.contours = 0 => f.m00 = 0 /\ f.blurContours = 0)
        /\ (f.m00 = 0 <=> f.m10 = 0)}

InitVision ==
    /\ pc = "locator_input"
    /\ frame \in VisionInputs
    /\ exc = "none"
    /\ stopCause = "none"
    /\ sorterSerial = "unopened"
    /\ robotSerial = "unopened"
    /\ camera = "unopened"
    /\ conveyor = 0
    /\ suction = 0
    /\ position = NoPosition
    /\ result = NoResult
    /\ drop_zone = NoDropZone
    /\ keyPending = FALSE
    /\ iterations = 0
    /\ log = <<>>
    /\ cleanupLog = <<>>
    /\ reported = "none"
    /\ exitStatus = 0

(* pick_x, pick_y, pick_z, is_in_pick_zone = self.get_object_position(frame) *)
LocateFrame ==
    /\ pc = "locator_input"
    /\ position' = get_object_position(frame)
    /\ pc' = "classifier_input"
    /\ UNCHANGED <<exc, stopCause, handles, conveyor, suction, frame, result,
                   drop_zone, keyPending, iterations, log, cleanupLog, outcome>>

NextVision == LocateFrame \/ ClassifyFrame

SpecVision == InitVision /\ [][NextVision]_vars

---------------------------------------------------------------------------
(* Claims *)

(* What a logged call commanded, without its outcome *)
Cmd(e) == [op |-> e.op, arg |-> e.arg]
Cmds(l) == [i \in 1 .. Len(l) |-> Cmd(l[i])]
Count(l, c) == Cardinality({i \in 1 .. Len(l) : Cmd(l[i]) = c})

SpeedCmd(percent) == [op |-> "speed", arg |-> Speed(percent)]
PumpCmd(on) == [op |-> "pump", arg |-> Pump(on)]
MoveCmd(to) == [op |-> "move", arg |-> to]
SleepCmd == [op |-> "sleep", arg |-> None]

(* The steps of the finally block as the spec lists them: closing the arm's *)
(* own handle is part of its suction-off step (RobotController.cleanup).    *)
IsShutdownStep(e) == e.op # "close_robot_serial"
ShutdownSteps == Cmds(SelectSeq(cleanupLog, IsShutdownStep))
ShutdownSequence ==
    <<[op |-> "release_camera", arg |-> None], PumpCmd(0), SpeedCmd(0),
      [op |-> "close_serial", arg |-> None]>>

(* sort() has been left *)
SortLeft == pc = "main_handler" \/ (pc = "exit" /\ reported # "traceback")

(* C1: however sort() stops ('q', KeyboardInterrupt, or an exception of a   *)
(* homing, conveyor, move or pump call) and in whatever state, once sort()  *)
(* has been left the cleanup has issued exactly: release the camera,        *)
(* suction off, conveyor speed 0, close the transport, once each and in     *)
(* this order.                                                              *)
C1_CleanupOnceInOrder ==
    SortLeft => ShutdownSteps = ShutdownSequence

(* C2: if a move command fails during pick/place, nothing more of the       *)
(* sequence is issued, the conveyor is not resumed, the controller is in    *)
(* shutdown, and once sort() has been left suction-off and conveyor-speed-0 *)
(* have each been commanded exactly once by the cleanup.                    *)
C2_MoveFailureShutsDown ==
    \A i \in 1 .. Len(log) :
        (log[i].op = "move" /\ ~log[i].ok) =>
            /\ i = Len(log)
            /\ pc \in FinallyPcs \cup {"main_handler", "exit"}
            /\ SortLeft => /\ Count(cleanupLog, PumpCmd(0)) = 1
                           /\ Count(cleanupLog, SpeedCmd(0)) = 1

(* C3: a run that ended because an actuator call raised exits with a        *)
(* non-zero status.                                                         *)
C3_FaultedExitIsNonZero ==
    (pc = "exit" /\ stopCause = "actuator") => exitStatus # 0

(* C4: after a user-initiated stop ('q' seen by the loop, or a              *)
(* KeyboardInterrupt) the cleanup sequence has completed, the exit status   *)
(* is zero and no error has been reported.                                  *)
C4_UserStopIsClean ==
    (pc = "exit" /\ stopCause \in {"q", "interrupt"}) =>
        /\ ShutdownSteps = ShutdownSequence
        /\ exitStatus = 0
        /\ reported # "error"

(* C5: when the object is in the pick zone and the classifier returns the   *)
(* no-object status, the iteration has issued nothing but the conveyor      *)
(* stop, raises no error, re-commands the conveyor to speed 30 and goes on  *)
(* to the next frame: the iteration's commands are exactly speed 0, speed   *)
(* 30, with no move and no pump command.                                    *)
C5_NoBiscuitResumesConveyor ==
    [][/\ (/\ pc = "classify" /\ pc' # pc /\ exc' = "none"
           /\ position.in_zone
           /\ result'.status = "no_biscuit_detected")
          => /\ pc' = "restart_no_biscuit"
             /\ stopCause' = "none"
             /\ log' = <<Ev("speed", Speed(0), TRUE)>>
       /\ (pc = "restart_no_biscuit" /\ pc' # pc /\ exc' = "none")
          => /\ pc' = "capture"
             /\ stopCause' = "none"
             /\ Cmds(log') = <<SpeedCmd(0), SpeedCmd(30)>>
             /\ conveyor' = 30 /\ suction' = suction
      ]_vars

(* A false-positive trigger has been handled and the loop is back at the    *)
(* capture point with the belt running.                                     *)
C5_Witness ==
    /\ pc = "capture"
    /\ position.in_zone
    /\ result.status = "no_biscuit_detected"
    /\ Cmds(log) = <<SpeedCmd(0), SpeedCmd(30)>>
    /\ conveyor = 30

(* The commands of one complete pick/place iteration on frame f *)
PickPlaceCycle(f) ==
    LET at == get_object_position(f)
    IN  <<SpeedCmd(0),
          MoveCmd(Pos(at.x, at.y, at.z)), SleepCmd,
          PumpCmd(1), SleepCmd,
          MoveCmd(drop_zones[detect_defects(f).status]), SleepCmd,
          PumpCmd(0), SleepCmd,
          SpeedCmd(30)>>

(* How many of them have been issued on reaching each position *)
IssuedAt ==
    [pick_move |-> 1, pick_settle1 |-> 2, pick_pump |-> 3, pick_settle2 |-> 4,
     place_move |-> 5, place_settle1 |-> 6, place_pump |-> 7,
     place_settle2 |-> 8, restart_conveyor |-> 9, wait_key |-> 10]

(* C6: a pick/place issues, in this order and nothing else, move(pick       *)
(* position), settle, suction on, settle, move(drop position of the         *)
(* classified status), settle, suction off, settle, and only then the       *)
(* conveyor speed 30: at every position of the sequence the iteration's     *)
(* commands are the corresponding prefix, and after completion all of it.   *)
C6_PickPlaceSequence ==
    (pc \in PickPlacePcs \cup {"restart_conveyor"}
        \/ (pc = "wait_key" /\ position.in_zone))
    => /\ Cmds(log) = SubSeq(PickPlaceCycle(frame), 1, IssuedAt[pc])
       /\ \A i \in 1 .. Len(log) : log[i].ok
       /\ pc = "wait_key" => conveyor = 30 /\ suction = 0

(* A pick/place has run to completion. *)
C6_Witness ==
    /\ pc = "wait_key"
    /\ position.in_zone
    /\ Len(log) = 10
    /\ log[6].arg = drop_zones.semi_burned

(* C7: an iteration whose camera read fails issues no command, changes      *)
(* neither the conveyor nor the suction state, raises nothing and leaves    *)
(* the loop running at the next capture.                                    *)
C7_CaptureFailureTolerated ==
    [][(pc = "capture" /\ iterations' # iterations /\ ~frame'.ret)
       => /\ pc' = "capture"
          /\ log' = <<>> /\ cleanupLog' = cleanupLog
          /\ conveyor' = conveyor /\ suction' = suction
          /\ exc' = "none" /\ stopCause' = "none"
      ]_vars

(* Every read so far has failed (the locator never ran) and the loop is     *)
(* still at the capture point with the belt running.                        *)
C7_Witness ==
    /\ pc = "capture"
    /\ iterations = MaxIter
    /\ ~frame.ret /\ ~position.set
    /\ conveyor = 30
    /\ stopCause = "none"

(* C8: every loop iteration polls the keyboard: the loop comes back to the  *)
(* capture point only from the waitKey test, for every kind of iteration    *)
(* (failed read, no object in the zone, false-positive trigger, completed   *)
(* pick/place).                                                             *)
C8_KeyPolledEveryIteration ==
    [][(/\ pc' = "capture"
        /\ pc # "start_conveyor"
        /\ (pc = "capture" => iterations' # iterations))
       => pc = "wait_key"
      ]_vars

(* C9: a termination request never preempts a pick/place in flight: when    *)
(* the cleanup begins after a user stop and move(pick) had been issued in   *)
(* the iteration, that sequence's suction-off and the conveyor resume had   *)
(* been issued too.                                                         *)
C9_NoPreemptionOfPickPlace ==
    (pc \in FinallyPcs /\ stopCause \in {"q", "interrupt"}) =>
        \A i \in 1 .. Len(log) :
            log[i].op = "move" =>
                \E j \in (i + 1) .. Len(log) :
                    /\ Cmd(log[j]) = PumpCmd(0)
                    /\ \E k \in (j + 1) .. Len(log) : Cmd(log[k]) = SpeedCmd(30)

(* C10: for every frame with at least one foreground contour and every      *)
(* histogram peak p in 0..255, detect_defects returns good (0.9) for p in   *)
(* [100,180], else fully_burned (0.85) for p <= 45, else semi_burned (0.80) *)
(* for p <= 100, else broken (0.75), whatever the area and the intensity    *)
(* range, and metrics.peak_intensity is p.  The first-match order is        *)
(* written out as the partition of 0..255 it induces.                       *)
C10_ClassificationByPeak ==
    pc = "classifier_output" =>
        LET p == frame.peak
        IN  /\ p \in 0 .. 45    => result.status = "fully_burned" /\ result.confidence = 85
            /\ p \in 46 .. 99   => result.status = "semi_burned" /\ result.confidence = 80
            /\ p \in 100 .. 180 => result.status = "good" /\ result.confidence = 90
            /\ p \in 181 .. 255 => result.status = "broken" /\ result.confidence = 75
            /\ result.metrics.peak_intensity = p

(* Scenario C of the spec: peak 150 classified good with confidence 0.9,    *)
(* here with a zero-area contour and the narrow intensity range.            *)
C10_Witness ==
    /\ pc = "classifier_output"
    /\ frame.peak = 150 /\ frame.area = 0 /\ frame.range = <<120, 130>>
    /\ result.status = "good" /\ result.confidence = 90
    /\ result.metrics.peak_intensity = 150

(* C11: for every frame with zero detected contours, the locator returns    *)
(* in-pick-zone false and the classifier returns a result whose status is   *)
(* the no-object status and whose confidence is 0.                          *)
C11_NoContours ==
    (pc = "classifier_output" /\ frame.contours = 0) =>
        /\ ~position.in_zone
        /\ result.status = "no_biscuit_detected"
        /\ "confidence" \in DOMAIN result
        /\ result.confidence = 0

(* The centroid column the locator computes, line 175 *)
CentroidColumn(f) == f.m10 \div f.m00

(* The columns strictly less than 50 away from width / 2: for width 2h the  *)
(* columns h-49 .. h+49, for width 2h+1 (centre h + 1/2) h-49 .. h+50.      *)
PickZoneColumns(width) ==
    LET h == width \div 2
    IN  IF width % 2 = 0 THEN (h - 49) .. (h + 49) ELSE (h - 49) .. (h + 50)

(* C12: for every frame width and centroid column cx of a non-degenerate    *)
(* largest contour, get_object_position reports the pick zone iff           *)
(* |cx - width/2| < 50 (49 inside, 50 outside), returns x = 200 and z = 50, *)
(* and y = ((cx - width/2) / width) * 400, i.e. y * width = 400*cx -        *)
(* 200*width; at the exact centre the object is in the zone and y = 0.      *)
C12_PickZoneAndMapping ==
    (pc \in {"classifier_input", "classifier_output"}
        /\ frame.contours > 0 /\ frame.m00 > 0) =>
        LET cx == CentroidColumn(frame)
            w  == frame.width
        IN  /\ position.in_zone <=> cx \in PickZoneColumns(w)
            /\ position.x = 200 /\ position.z = 50
            /\ position.y.den > 0
            /\ position.y.num * w = (400 * cx - 200 * w) * position.y.den
            /\ 2 * cx = w => position.in_zone /\ position.y.num = 0

(* Scenario B of the spec, inside half: width 640, centroid 49 columns left *)
(* of the centre, truncated from 543/2, is in the pick zone.                *)
C12_Witness ==
    /\ pc = "classifier_input"
    /\ frame.width = 640 /\ frame.m00 = 2 /\ frame.m10 = 543
    /\ position.in_zone
    /\ position.x = 200 /\ position.z = 50
    /\ position.y.num < 0

---------------------------------------------------------------------------
(* The shutdown sequence invoked twice: once the finally block has run to   *)
(* its end, its statements (lines 244-248) are executed again on the same   *)
(* objects.                                                                 *)

CleanupCompleted ==
    /\ Len(cleanupLog) = 5
    /\ ShutdownSteps = ShutdownSequence
    /\ \A i \in 1 .. Len(cleanupLog) : cleanupLog[i].ok

InvokeCleanupAgain ==
    /\ pc = "main_handler"
    /\ CleanupCompleted
    /\ pc' = "release_camera"
    /\ UNCHANGED <<exc, stopCause, handles, conveyor, suction, locals,
                   keyPending, iterations, log, cleanupLog, outcome>>

NextShutdownTwice == Next \/ InvokeCleanupAgain

SpecShutdownTwice == Init /\ [][NextShutdownTwice]_vars

(* C13: shutdown is idempotent: a second run of the cleanup sequence after  *)
(* a completed one raises nothing, sends no command over the closed         *)
(* transport and does not close the transport again.                        *)
C13_ShutdownIdempotent ==
    \A i \in 6 .. Len(cleanupLog) :
        /\ cleanupLog[i].ok
        /\ cleanupLog[i].op \notin {"pump", "speed", "close_serial", "close_robot_serial"}

---------------------------------------------------------------------------
(* Handles on the physical transport (port COM3) *)
Opened(handle) == IF handle # "unopened" THEN 1 ELSE 0
Closed(handle) == IF handle = "closed" THEN 1 ELSE 0
TransportOpens == Opened(sorterSerial) + Opened(robotSerial)
TransportCloses == Closed(sorterSerial) + Closed(robotSerial)

(* The constructor has returned and sort() has been entered *)
SortEntered == pc \in TryPcs \cup FinallyPcs \cup {"main_handler"}
                \/ (pc = "exit" /\ reported # "traceback")

(* C14: over one full run the physical transport is opened exactly once at  *)
(* startup and closed exactly once during shutdown, and no arm or conveyor  *)
(* command is sent after the transport has been closed.                     *)
C14_TransportOpenedAndClosedOnce ==
    /\ SortEntered => TransportOpens = 1
    /\ (pc = "exit" /\ SortEntered) => TransportCloses = 1
    /\ \A i, j \in 1 .. Len(cleanupLog) :
           (i < j /\ cleanupLog[i].op \in {"close_serial", "close_robot_serial"})
               => cleanupLog[j].op \notin {"pump", "speed", "move", "homing"}

(* C16: the cleanup is best-effort: whenever sort() has been left, by any   *)
(* path, conveyor-speed-0 has been commanded and the close of the transport *)
(* has been attempted, even if an earlier cleanup step failed.              *)
C16_CleanupBestEffort ==
    SortLeft =>
        /\ Count(cleanupLog, SpeedCmd(0)) >= 1
        /\ Count(cleanupLog, [op |-> "close_serial", arg |-> None]) >= 1
        /\ sorterSerial = "closed"

(* C20: when the construction of VisionBasedSorter fails after a transport  *)
(* handle has been opened, the opened handles are closed before the error   *)
(* propagates out of main.                                                  *)
C20_ConstructionReleasesHandles ==
    (pc = "exit" /\ reported = "traceback") =>
        /\ sorterSerial # "open"
        /\ robotSerial # "open"

---------------------------------------------------------------------------
(* C15: the drop-zone table, built once by the constructor, covers every    *)
(* status the classifier can return other than the no-object status: when   *)
(* sort() is entered, for every histogram peak the classified status is a   *)
(* key of the table and is never 'unknown'; no loop iteration's lookup      *)
(* fails, and during pick/place the drop zone is the table's entry for the  *)
(* classified status.                                                       *)
C15_DropZoneCoverage ==
    /\ pc = "home" =>
           \A p \in 0 .. (HistBins - 1) :
               /\ Classification(p).status \in DOMAIN drop_zones
               /\ Classification(p).status # "unknown"
    /\ stopCause # "lookup"
    /\ pc = "lookup" => result.status \in {"good", "broken", "semi_burned", "fully_burned"}
    /\ pc \in PickPlacePcs =>
           /\ drop_zone.set
           /\ drop_zone.pos = drop_zones[result.status]

(* A lookup for a classified status has succeeded. *)
C15_Witness ==
    /\ pc = "pick_move"
    /\ result.status = "broken"
    /\ drop_zone.set
    /\ drop_zone.pos = Pos(200, Frac(100, 1), 50)

(* C17: inside the loop the conveyor is halted before the arm acts: when    *)
(* the object is in the pick zone, speed 0 is the iteration's first command *)
(* and has been delivered before the classifier runs; every move and pump   *)
(* command of the loop is issued while the last commanded speed is 0; an    *)
(* iteration whose object is outside the pick zone issues no command.       *)
C17_ConveyorHaltedBeforeArm ==
    /\ pc \in {"classify", "restart_no_biscuit", "lookup", "restart_conveyor"}
              \cup PickPlacePcs
       => /\ conveyor = 0
          /\ log # <<>>
          /\ log[1] = Ev("speed", Speed(0), TRUE)
    /\ \A i \in 1 .. Len(log) :
           log[i].op \in {"move", "pump"} =>
               \E j \in 1 .. (i - 1) :
                   /\ Cmd(log[j]) = SpeedCmd(0)
                   /\ \A k \in (j + 1) .. (i - 1) : log[k].op # "speed"
    /\ (pc = "wait_key" /\ ~position.in_zone) => log = <<>>

(* The arm is about to release the biscuit with the belt halted. *)
C17_Witness ==
    /\ pc = "place_pump"
    /\ conveyor = 0
    /\ Len(log) = 7
    /\ log[2].op = "move" /\ log[4].op = "pump" /\ log[6].op = "move"

(* C18: homing is commanded exactly once per run, before the conveyor is    *)
(* first started: it is issued only by the first statement of sort(), which *)
(* is entered once; the conveyor start is reached only with the homing      *)
(* delivered; a non-zero speed is commanded only after that; and when the   *)
(* homing fails the run is in the cleanup with the conveyor never commanded *)
(* to a non-zero speed.                                                     *)
C18_HomingOnceBeforeConveyor ==
    [][/\ (Len(log') > Len(log) /\ log'[Len(log')].op = "homing")
          => /\ pc = "home" /\ pc' # "home"
             /\ log = <<>> /\ iterations = 0 /\ conveyor = 0
       /\ pc' = "home" => pc \in {"open_camera", "home"}
       /\ pc' = "start_conveyor" => log' = <<Ev("homing", None, TRUE)>>
       /\ (Len(log') > Len(log) /\ log'[Len(log')].op = "speed"
              /\ log'[Len(log')].arg.percent # 0)
          => \/ pc = "start_conveyor" /\ log = <<Ev("homing", None, TRUE)>>
             \/ iterations > 0
       /\ \A i \in 1 .. Len(cleanupLog') :
              cleanupLog'[i].op = "speed" => cleanupLog'[i].arg.percent = 0
       /\ log' = <<Ev("homing", None, FALSE)>>
          => /\ pc' \in FinallyPcs \cup {"main_handler", "exit"}
             /\ conveyor' = 0
      ]_vars

(* The homing failed and the cleanup is running, about to command speed 0. *)
C18_Witness ==
    /\ pc = "cleanup_conveyor"
    /\ log = <<Ev("homing", None, FALSE)>>
    /\ conveyor = 0

(* The last command of kind op in a log, None if there is none *)
LastArg(l, op) ==
    LET at == {i \in 1 .. Len(l) : l[i].op = op}
    IN  IF at = {} THEN None
        ELSE l[CHOOSE i \in at : \A j \in at : j <= i].arg

(* C19: whenever the loop is at the frame-capture point, whatever the       *)
(* iterations before (failed reads, objects outside the zone, false         *)
(* positives, completed pick/place cycles), the last commanded conveyor     *)
(* speed is 30 and the suction is off: the last pump command, if any, was   *)
(* off.                                                                     *)
C19_CapturePointInvariant ==
    pc = "capture" =>
        /\ conveyor = 30
        /\ suction = 0
        /\ LastArg(log, "speed") \in {None, Speed(30)}
        /\ LastArg(log, "pump") \in {None, Pump(0)}

(* Back at the capture point after the last allowed iteration was a         *)
(* completed pick/place.                                                    *)
C19_Witness ==
    /\ pc = "capture"
    /\ iterations = MaxIter
    /\ Len(log) = 10
    /\ conveyor = 30 /\ suction = 0

===========================================================================
